---- MODULE Spec2Model ----
(***************************************************************************)
(* Model of eddytools/tracking.py: the per-timestep assignment of detected *)
(* eddies to tracks (track_core), and the two drivers track and            *)
(* split_track that feed it from a file-backed or an in-memory provider.   *)
(*                                                                         *)
(* Conventions.  Python lists and dicts keyed 0..n-1 are TLA+ sequences    *)
(* indexed 1..n, so a Python index k is the TLA+ index k+1; where the code *)
(* computes with the index values themselves (possibles.sum()) the Python  *)
(* value is restored.  The fields lon, lat, amp, area, scale and time of a *)
(* detected eddy are one-element arrays (track['lon'][-1] needs that), so  *)
(* a track's field is the sequence of the values appended so far.          *)
(* Lengths are exact rationals; sqrt is dropped from the distance, which   *)
(* does not change which candidates are at the minimum.                    *)
(***************************************************************************)
EXTENDS Integers, Sequences, FiniteSets, TLC

VARIABLES
    pc,              \* position of the running driver call
    entry,           \* "track" or "split" (split_track)
    in_file,         \* the in_file argument
    continuing,      \* the continuing argument of split_track
    eddies_time,     \* the time axis built by prepare: labels of its steps
    t,               \* index of the step the tracks are initialised from
    t_range,         \* the steps the main loop has still to visit
    terminate_all,   \* the driver's local flag of that name
    tracks,          \* list of track records
    terminated_list, \* list of indices of terminated tracks
    det_eddies,      \* eddy set of the step being processed
    unassigned,      \* track_core: indices of det_eddies not yet claimed
    eddy_list,       \* track_core: tracks the loop has still to process
    tracks_dict,     \* the filtered result
    data,            \* the provider: what it holds for the steps asked so far
    whole,           \* an earlier track call over a whole range, kept to
                     \* compare a split run on the same data with it
    call             \* one call of prepare, calculate_d or is_in_ellipse:
                     \* its arguments and what it returned

vars == <<pc, entry, in_file, continuing, eddies_time, t, t_range,
          terminate_all, tracks, terminated_list, det_eddies, unassigned,
          eddy_list, tracks_dict, data, whole, call>>

(* ------------------------------ bounds -------------------------------- *)
MaxSteps == 3
MaxDetections == 4
MaxPool == 3
MaxDt == 7
MaxExtent == 2

(* --------------------------- configuration ---------------------------- *)
\* t_p as returned by prepare; eddy_scale_min = 0.75 and eddy_scale_max = 1.5
\* are kept as <<numerator, denominator>>.
trac_param ==
    [grid |-> "cartesian", dE |-> 1,
     eddy_scale_min |-> <<3, 4>>, eddy_scale_max |-> <<3, 2>>]

\* The factor 1e3 from km to m on a cartesian grid.
Km == 1000

(* ------------------------------ helpers ------------------------------- *)
Last(s) == s[Len(s)]

Abs(x) == IF x < 0 THEN -x ELSE x

RECURSIVE Gcd(_, _)
Gcd(a, b) == IF b = 0 THEN a ELSE Gcd(b, a % b)

RECURSIVE SumSeq(_)
SumSeq(s) == IF s = <<>> THEN 0 ELSE Head(s) + SumSeq(Tail(s))

Range(s) == {s[i] : i \in DOMAIN s}

Iota(n) == [i \in 1..n |-> i]

\* np.where(flags)[0]: the indices at which flags holds, ascending.
IndexWhere(flags) ==
    LET Test(i) == flags[i] IN SelectSeq(Iota(Len(flags)), Test)

\* operator.itemgetter(*index)(items), as a tuple.
Take(items, index) == [k \in 1..Len(index) |-> items[index[k]]]

\* list.remove(x): the list without the first occurrence of x.
\* A removal that leaves the list as it is.
RemoveNothing(s, x) == s

Remove(s, x) ==
    LET i == CHOOSE j \in DOMAIN s : s[j] = x /\ \A k \in 1..(j - 1) : s[k] # x
    IN  [k \in 1..(Len(s) - 1) |-> IF k < i THEN s[k] ELSE s[k + 1]]

\* list(set(s)) for small non-negative integers: ascending, no duplicates.
RECURSIVE SortedSeq(_)
SortedSeq(S) ==
    IF S = {} THEN <<>>
    ELSE LET m == CHOOSE x \in S : \A y \in S : x <= y
         IN  <<m>> \o SortedSeq(S \ {m})

\* d[0] = v on a dict d.
DictPutAtZero(d, v) ==
    [x \in (DOMAIN d) \cup {0} |-> IF x = 0 THEN v ELSE d[x]]

\* d[len(d)] = v on a dict d.
DictPut(d, v) ==
    LET k == Cardinality(DOMAIN d)
    IN  [x \in (DOMAIN d) \cup {k} |-> IF x = k THEN v ELSE d[x]]

(* ------------------------- search geometry ---------------------------- *)
\* (n / d)^2 as a reduced fraction <<numerator, denominator>>, d > 0.
SqFrac(n, d) ==
    LET g == Gcd(Abs(n), d)
    IN  <<(Abs(n) \div g) * (Abs(n) \div g), (d \div g) * (d \div g)>>

\* A search region without bounds.
EverywhereInEllipse(x0, y0, dE, d, x, y) == TRUE

\* A search region without its boundary.
InsideEllipseOnly(x0, y0, dE, d, x, y) ==
    LET dW == IF d > dE THEN d ELSE dE
        a2 == dE + dW
        X2 == 2 * (x - x0) - (dE - dW)
    IN  IF a2 = 0 \/ dE = 0 THEN FALSE
        ELSE LET fx == SqFrac(X2, a2)
                 fy == SqFrac(y - y0, dE)
             IN  fx[1] * fy[2] + fy[1] * fx[2] < fx[2] * fy[2]

\* A search region whose western extent is d, also when d is below dE.
UnflooredEllipse(x0, y0, dE, d, x, y) ==
    LET a2 == dE + d
        X2 == 2 * (x - x0) - (dE - d)
    IN  IF a2 = 0 \/ dE = 0 THEN FALSE
        ELSE LET fx == SqFrac(X2, a2)
                 fy == SqFrac(y - y0, dE)
             IN  fx[1] * fy[2] + fy[1] * fx[2] <= fx[2] * fy[2]

\* (x-x1)**2 / a**2 + (y-y1)**2 / b**2 <= 1 with a = 0.5*(dE+dW), b = dE,
\* x1 = x0 + 0.5*(dE-dW), y1 = y0; the halves are cleared by doubling.  A
\* zero axis gives nan or inf in the code, and the comparison is then False.
is_in_ellipse(x0, y0, dE, d, x, y) ==
    LET dW == IF d > dE THEN d ELSE dE
        b  == dE
        a2 == dE + dW
        X2 == 2 * (x - x0) - (dE - dW)
    IN  IF a2 = 0 \/ b = 0 THEN FALSE
        ELSE LET fx == SqFrac(X2, a2)
                 fy == SqFrac(y - y0, b)
             IN  fx[1] * fy[2] + fy[1] * fx[2] <= fx[2] * fy[2]

\* One entry of is_near: the cartesian branch, d = dE, both times 1e3.
eddy_is_near(track, item) ==
    LET x0 == Last(track.lon)
        y0 == Last(track.lat)
        d  == trac_param.dE
    IN  is_in_ellipse(x0, y0, trac_param.dE * Km, d * Km, item.lon, item.lat)

(* ------------------------ search extents ------------------------------ *)
\* n / d as a reduced fraction <<numerator, denominator>>, d > 0.
Frac(n, d) ==
    LET g == Gcd(Abs(n), d)
    IN  IF n = 0 THEN <<0, 1>> ELSE <<n \div g, d \div g>>

\* A prepare that keeps a dE of zero.
prepareKeepingZero(tp) ==
    [exit |-> tp.dE < 0,
     t_p |-> [dE |-> Frac(tp.dE, 1), dt |-> tp.dt],
     trac_param |-> tp]

\* prepare, for the eastern extent: t_p is the copy that is returned, with
\* dE in km as a fraction; trac_param is the caller's dictionary after the
\* call; exit is sys.exit().
prepare(tp) ==
    [exit |-> tp.dE < 0,
     t_p |-> [dE |-> IF tp.dE = 0 THEN Frac(150 * tp.dt, 7)
                     ELSE Frac(tp.dE, 1),
              dt |-> tp.dt],
     trac_param |-> tp]

\* The grid points of the Rossby table, (lon, lat), and the tables: the
\* Rossby wave speed cR in m/s at each grid point.
RossGrid == {0, 350} \X {-17, 0, 17}

RossTables == {[cR |-> [pt \in RossGrid |-> c]] : c \in {-2, 0, 1}}

\* A calculate_d that takes the tropics to reach up to 18 degrees.
calculate_d_to_18(dE, lon, lat, rossrad, dt) ==
    IF Abs(lat) <= 18
    THEN Frac(756 * dt, 5)
    ELSE Frac(dE, 1)

\* calculate_d, in km as a fraction.  The linear interpolation is taken
\* at grid points of the table, where it returns the tabulated value;
\* 1.75 * 86400 / 1000 = 756 / 5.
calculate_d(dE, lon, lat, rossrad, dt) ==
    IF Abs(lat) < 18
    THEN LET lon_pos == IF lon < 0 THEN lon + 360 ELSE lon
             cR == rossrad.cR[<<lon_pos, lat>>]
         IN  Frac(756 * Abs(cR) * dt, 5)
    ELSE Frac(dE, 1)

(* ----------------------------- time axis ------------------------------ *)
\* A leap year rule without the exception for the centuries.
is_leap_year_every_fourth(year) == year % 4 = 0

is_leap_year(year) ==
    year % 4 = 0 /\ (year % 100 # 0 \/ year % 400 = 0)

\* The lengths of the months in the calendar handed to cftime_range.
MonthLengths(calendar_to_use) ==
    IF calendar_to_use = "360_day" THEN [m \in 1..12 |-> 30]
    ELSE <<31, 28, 31, 30, 31, 30, 31, 31, 30, 31, 30, 31>>

YearLength(calendar_to_use) == SumSeq(MonthLengths(calendar_to_use))

\* The number of the day in its calendar, counted from the first day of
\* year 0.
DayNumber(calendar_to_use, date) ==
    date.year * YearLength(calendar_to_use)
    + SumSeq(SubSeq(MonthLengths(calendar_to_use), 1, date.month - 1))
    + date.day - 1

\* The month and the day of the d-th day counted from the first of month m.
RECURSIVE MonthDay(_, _, _)
MonthDay(lengths, m, d) ==
    IF d <= lengths[m] THEN <<m, d>>
    ELSE MonthDay(lengths, m + 1, d - lengths[m])

\* The timestamp of a numbered day at the given hour.
DateOf(calendar_to_use, number, hour) ==
    LET md == MonthDay(MonthLengths(calendar_to_use), 1,
                       (number % YearLength(calendar_to_use)) + 1)
    IN  [year |-> number \div YearLength(calendar_to_use),
         month |-> md[1], day |-> md[2], hour |-> hour]

\* xr.cftime_range(start, end, calendar, freq = dt days): the timestamps
\* start, start + dt, ... that are not after end.
cftime_range(start, end, hour, calendar_to_use, dt) ==
    LET first == DayNumber(calendar_to_use, start)
        last  == DayNumber(calendar_to_use, end)
        n     == IF last < first THEN 0 ELSE (last - first) \div dt + 1
    IN  [k \in 1..n |->
            DateOf(calendar_to_use, first + (k - 1) * dt, hour)]

\* prepare, for the time axis.  An entry stands for the string
\* 'YYYY-MM-DD HH:00:00' with these four numbers.
prepare_eddies_time(tp) ==
    LET time_hours == IF tp.model = "ORCA" THEN 12 ELSE 0
        calendar_to_use ==
            IF tp.calendar = "standard" THEN "noleap" ELSE "360_day"
        eddies_time_range ==
            cftime_range(tp.start_time, tp.end_time, time_hours,
                         calendar_to_use, tp.dt)
    IN  [eddies_time_range |-> eddies_time_range,
         eddies_time |->
            [tt \in DOMAIN eddies_time_range |->
                IF /\ is_leap_year(eddies_time_range[tt].year)
                   /\ eddies_time_range[tt].month = 2
                   /\ eddies_time_range[tt].day = 27
                   /\ tp.model = "ORCA"
                THEN [year |-> eddies_time_range[tt].year,
                      month |-> 2, day |-> 28, hour |-> 0]
                ELSE eddies_time_range[tt]]]

(* -------------------------- candidate filter -------------------------- *)
\* v < last * eddy_scale_max and v > last * eddy_scale_min.
InScale(v, last) ==
    /\ v * trac_param.eddy_scale_max[2] < last * trac_param.eddy_scale_max[1]
    /\ v * trac_param.eddy_scale_min[2] > last * trac_param.eddy_scale_min[1]

\* One entry of is_similar_amp and of is_similar_area.
is_similar_amp(track, item) == InScale(item.amp, Last(track.amp))

is_similar_area(track, item) == InScale(item.area, Last(track.area))

\* A type stage that lets every eddy through.
AnyType(track, item) == TRUE

\* One entry of is_same_type.
eddy_is_same_type(track, item) == item.type = track.type

\* A distance that grows as the candidate comes closer.
DistNegated(track, item) ==
    0 - (Last(track.lon) - item.lon) * (Last(track.lon) - item.lon)
      - (Last(track.lat) - item.lat) * (Last(track.lat) - item.lat)

\* The squared distance of a candidate to the track's last center.
Dist2(track, item) ==
    (Last(track.lon) - item.lon) * (Last(track.lon) - item.lon)
    + (Last(track.lat) - item.lat) * (Last(track.lat) - item.lat)

\* possibles.sum(): the sum of the Python (0-based) positions.
PossiblesSum(possibles) == SumSeq([k \in DOMAIN possibles |-> possibles[k] - 1])

\* The similarity stage as track_core applies it.
SimilarStage(track, item) == is_similar_area(track, item)

NoMatch(outcome) == [outcome |-> outcome, next_eddy |-> 0]

\* The body of track_core's loop for one track up to the choice of
\* next_eddy.  outcome is "extend" (next_eddy is the accepted index of
\* det_eddies), "terminate" (one of the four terminating branches) or
\* "error" (an exception leaves track_core).
Match(track, det, pool) ==
    IF pool = <<>> THEN NoMatch("error")  \* itemgetter() without arguments
    ELSE
    LET un0 == Take(det, pool)
        is_near_index ==
            IndexWhere([i \in DOMAIN un0 |-> eddy_is_near(track, un0[i])])
    IN  IF is_near_index = <<>> THEN NoMatch("terminate") ELSE
    LET un1 == Take(un0, is_near_index)
        is_similar_index ==
            IndexWhere([i \in DOMAIN un1 |-> SimilarStage(track, un1[i])])
    IN  IF is_similar_index = <<>> THEN NoMatch("terminate") ELSE
    LET un2 == Take(un1, is_similar_index)
        is_same_type_index ==
            IndexWhere([i \in DOMAIN un2 |-> eddy_is_same_type(track, un2[i])])
    IN  IF is_same_type_index = <<>> THEN NoMatch("terminate") ELSE
    LET un3 == Take(un2, is_same_type_index)
        possibles ==
            [k \in DOMAIN un3 |->
                is_near_index[is_similar_index[is_same_type_index[k]]]]
    IN  IF PossiblesSum(possibles) > 0
        THEN LET dist == [i \in DOMAIN un3 |-> Dist2(track, un3[i])]
                 least == CHOOSE m \in Range(dist) : \A v \in Range(dist) : m <= v
                 where == IndexWhere([i \in DOMAIN dist |-> dist[i] = least])
             IN  IF Len(where) # 1
                 THEN NoMatch("error")  \* int() of an array of several indices
                 ELSE [outcome |-> "extend",
                       next_eddy |-> pool[possibles[where[1]]]]
        ELSE NoMatch("terminate")

(* --------------------------- track records ---------------------------- *)
\* A termination that also overwrites the type field.
TerminateWritingType(track) ==
    [track EXCEPT !.terminated = TRUE, !.type = "terminated"]

\* A termination that also cuts the last entry off the longitudes.
TerminateCutting(track) ==
    [track EXCEPT !.terminated = TRUE, !.lon = SubSeq(@, 1, Len(@) - 1)]

\* tracks[ed]['terminated'] = True
Terminate(track) == [track EXCEPT !.terminated = TRUE]

\* An extension that forgets to append the scale.
ExtendWithoutScale(track, e) ==
    [track EXCEPT !.lon = Append(@, e.lon), !.lat = Append(@, e.lat),
                  !.amp = Append(@, e.amp), !.area = Append(@, e.area),
                  !.time = Append(@, e.time),
                  !.eddy_i = DictPut(@, e.eddy_i),
                  !.eddy_j = DictPut(@, e.eddy_j)]

\* The np.append calls and the two footprint assignments.
Extend(track, e) ==
    [track EXCEPT !.lon = Append(@, e.lon), !.lat = Append(@, e.lat),
                  !.amp = Append(@, e.amp), !.area = Append(@, e.area),
                  !.scale = Append(@, e.scale), !.time = Append(@, e.time),
                  !.eddy_i = DictPut(@, e.eddy_i),
                  !.eddy_j = DictPut(@, e.eddy_j)]

\* A track made of one detected eddy.
NewTrack(e, at_start) ==
    [lon |-> <<e.lon>>, lat |-> <<e.lat>>, amp |-> <<e.amp>>,
     area |-> <<e.area>>, scale |-> <<e.scale>>, time |-> <<e.time>>,
     eddy_i |-> DictPut(<<>>, e.eddy_i), eddy_j |-> DictPut(<<>>, e.eddy_j),
     type |-> e.type, exist_at_start |-> at_start, terminated |-> FALSE]

\* A new track for every eddy of the step, assigned or not.
BirthsOfAll(det, pool) == [k \in 1..Len(det) |-> NewTrack(det[k], FALSE)]

\* New tracks for all the eddies left in unassigned but the last.
BirthsButLast(det, pool) ==
    [k \in 1..(IF Len(pool) = 0 THEN 0 ELSE Len(pool) - 1) |->
        NewTrack(det[pool[k]], FALSE)]

\* The tracks appended for the eddies left in unassigned.
Births(det, pool) == [k \in 1..Len(pool) |-> NewTrack(det[pool[k]], FALSE)]

\* for ed in np.arange(0, len(det_eddies) - 1): the initial tracks.
InitialTracks(det) ==
    [k \in 1..(IF Len(det) = 0 THEN 0 ELSE Len(det) - 1) |->
        NewTrack(det[k], TRUE)]

\* An eddy_list that keeps the terminated tracks.
ToProcessAll(trks, term) == Iota(Len(trks))

\* An eddy_list that runs from the newest track to the oldest.
ToProcessBackwards(trks, term) ==
    LET Keep(ed) == ed \notin Range(term) /\ ~trks[ed].terminated
        up == SelectSeq(Iota(Len(trks)), Keep)
    IN  [k \in DOMAIN up |-> up[Len(up) + 1 - k]]

\* eddy_list after the removals, less the tracks the loop's guard skips.
\* The guard reads only tracks[ed], which no other iteration writes.
ToProcess(trks, term) ==
    LET Keep(ed) == ed \notin Range(term) /\ ~trks[ed].terminated
    IN  SelectSeq(Iota(Len(trks)), Keep)

\* eddy_list.remove raises if an index is listed twice or is no track.
RemovalFails(trks, term) ==
    \/ \E i, j \in DOMAIN term : i # j /\ term[i] = term[j]
    \/ \E i \in DOMAIN term : term[i] \notin 1..Len(trks)

\* A whole-step termination that drops the oldest track.
ForceTerminatedDropping(trks) ==
    [ed \in 1..(Len(trks) - 1) |-> [trks[ed + 1] EXCEPT !.terminated = TRUE]]

\* A whole-step termination that stops one track short.
ForceTerminatedButLast(trks) ==
    [ed \in DOMAIN trks |->
        IF ed < Len(trks) THEN [trks[ed] EXCEPT !.terminated = TRUE]
        ELSE trks[ed]]

\* The whole-step termination: every track flagged, every index listed.
ForceTerminated(trks) == [ed \in DOMAIN trks |-> Terminate(trks[ed])]

\* A whole-step termination that leaves the list as it was.
ForceListUnchanged(trks, term) == term

\* A whole-step termination that lists one index more than there are
\* tracks.
ForceListPastEnd(trks, term) ==
    SortedSeq(Range(term) \cup (1..(Len(trks) + 1)))

\* terminated_list after the whole-step termination: every index appended,
\* then list(set(terminated_list)).
ForceList(trks, term) == SortedSeq(Range(term) \cup (1..Len(trks)))

\* A result keyed by the position in the track list.
FilteredSparse(trks) ==
    [ed \in {i \in 1..Len(trks) : Len(trks[i].lon) > 1} |-> trks[ed]]

\* A result that keeps every track, whatever its length.
FilteredKeepingAll(trks) == [k \in 0..(Len(trks) - 1) |-> trks[k + 1]]

\* The tracks of more than one step, under dense keys 0, 1, ...
Filtered(trks) ==
    LET Long(ed) == Len(trks[ed].lon) > 1
        keep == SelectSeq(Iota(Len(trks)), Long)
    IN  [k \in 0..(Len(keep) - 1) |-> trks[keep[k + 1]]]

(* ---------------------------- the provider ---------------------------- *)
\* A detected eddy without its time stamp; the footprint is the grid cell
\* of the center and the scale follows the area.
Eddy(lon, lat, amp, area, type) ==
    [lon |-> lon, lat |-> lat, amp |-> amp, area |-> area, scale |-> 2 * area,
     type |-> type, eddy_i |-> lon \div 500, eddy_j |-> lat \div 500]

\* The eddies a step may hold.  With dE = 1 km the search region of a
\* track is the disc of 1000 m around its last center:
\*   the first is a reference eddy;
\*   the second is near it, of the same area and type, of twice the amp;
\*   the third is near both, like the first but of the other type;
\*   the fourth is of twice the area, out of reach of the first and the
\*   third and on the rim of the second's region.
Eddies ==
    { Eddy(0, 0, 4, 4, "cyclonic"),
      Eddy(500, 0, 8, 4, "cyclonic"),
      Eddy(500, 500, 4, 4, "anticyclonic"),
      Eddy(1500, 0, 4, 8, "cyclonic") }

\* Detection sets of up to k different eddies, in any order.
EddySets ==
    [k \in 0..MaxDetections |->
        UNION { { s \in [1..n -> Eddies] :
                    \A i, j \in 1..n : i # j => s[i] # s[j] } : n \in 0..k }]

\* What the provider may hold for one step when k more eddies can be
\* detected: nothing (no file, no key), or a detection set, which may be
\* empty.
StepData ==
    [k \in 0..MaxDetections |->
        {[avail |-> FALSE, eddies |-> <<>>]}
        \cup {[avail |-> TRUE, eddies |-> s] : s \in EddySets[k]}]

\* The step can be supplied: the file exists, or dict[step][0]['time']
\* can be read.
Supplied(d, file) == IF file THEN d.avail ELSE d.avail /\ d.eddies # <<>>

\* A detected eddy with its time stamp.
Stamp(e, label) ==
    [lon |-> e.lon, lat |-> e.lat, amp |-> e.amp, area |-> e.area,
     scale |-> e.scale, type |-> e.type, eddy_i |-> e.eddy_i,
     eddy_j |-> e.eddy_j, time |-> label]

\* The detection set of a step.  Each record carries the time stamp of the
\* step it is held under, unless the provider holds under this step the
\* records detected at another time.
Load(d, label) ==
    [k \in DOMAIN d.eddies |->
        Stamp(d.eddies[k], IF "time" \in DOMAIN d THEN d.time ELSE label)]

\* The number of eddies detected in the steps asked for so far.
Detected == SumSeq([i \in DOMAIN data |-> Len(data[i].eddies)])

\* The answers the provider can give for the step with this label.
Answers(label) ==
    IF label < Len(data) THEN {data[label + 1]}
    ELSE StepData[MaxDetections - Detected]

\* The provider is asked for the step with this label (0, 1, ...) and
\* answers d: what it answered before, or a new answer that it keeps.
Ask(label, d) ==
    /\ label <= Len(data)
    /\ IF label < Len(data)
       THEN data' = data
       ELSE data' = Append(data, d)

\* The time axis of n steps that starts at the step labelled first.
Axis(first, n) == [k \in 1..n |-> first + k - 1]

\* range(a, b) as the list of its values.
PyRange(a, b) == [k \in 1..(IF b > a THEN b - a ELSE 0) |-> a + k - 1]

(* ----------------------------- the drivers ---------------------------- *)
\* No call of a helper function has been recorded.
NoCall == [fn |-> "none", args |-> <<>>, result |-> <<>>]

Init ==
    /\ pc = "scan"
    /\ entry \in {"track", "split"}
    /\ in_file \in BOOLEAN
    /\ continuing = FALSE
    /\ eddies_time \in {Axis(0, n) : n \in 1..MaxSteps}
    /\ t = 0
    /\ t_range = <<>>
    /\ terminate_all = FALSE
    /\ tracks = <<>>
    /\ terminated_list = <<>>
    /\ det_eddies = <<>>
    /\ unassigned = <<>>
    /\ eddy_list = <<>>
    /\ tracks_dict = <<>>
    /\ data = <<>>
    /\ whole = [done |-> FALSE, axis |-> <<>>, result |-> <<>>]
    /\ call = NoCall

\* The tracks are initialised from the step with this label, found at t.
StartFrom(d, label) ==
    /\ det_eddies' = Load(d, label)
    /\ tracks' = tracks \o InitialTracks(Load(d, label))
    /\ terminate_all' = FALSE
    /\ t_range' = PyRange(t + 1, Len(eddies_time))
    /\ pc' = "loop"
    /\ UNCHANGED <<entry, in_file, whole, call, continuing, eddies_time, t,
                   terminated_list, unassigned, eddy_list, tracks_dict>>

\* The call ends at once: with an exception ("error") or with the
\* 'no eddies found' return ("none").
Leave(how) ==
    /\ pc' = how
    /\ UNCHANGED <<entry, in_file, whole, call, continuing, eddies_time, t, t_range,
                   terminate_all, tracks, terminated_list, det_eddies,
                   unassigned, eddy_list, tracks_dict>>

\* track and split_track, in_file: os.path.isfile never raises, so the
\* first date is taken and its file is opened.
ScanFile ==
    /\ pc = "scan" /\ in_file
    /\ \E d \in Answers(eddies_time[t + 1]) :
        /\ Ask(eddies_time[t + 1], d)
        /\ IF d.avail THEN StartFrom(d, eddies_time[t + 1]) ELSE Leave("error")

\* track, in memory: one round of the while loop that looks for the first
\* step whose first record can be read.
ScanMemory ==
    /\ pc = "scan" /\ ~in_file /\ entry = "track"
    /\ \E d \in Answers(t) :
        /\ Ask(t, d)
        /\ IF Supplied(d, FALSE) THEN StartFrom(d, t)
           ELSE /\ t' = t + 1
                /\ pc' = IF t + 1 > Len(eddies_time) THEN "none" ELSE "scan"
                /\ UNCHANGED <<entry, in_file, whole, call, continuing, eddies_time,
                               t_range, terminate_all, tracks, terminated_list,
                               det_eddies, unassigned, eddy_list, tracks_dict>>

\* split_track, in memory, not continuing: one round of the search for
\* the step whose time is eddies_time[0], at a step of an earlier time;
\* reading a step that cannot be supplied raises.
SearchSplitMemory ==
    /\ pc = "scan" /\ ~in_file /\ entry = "split"
    /\ t < eddies_time[1]
    /\ \E d \in Answers(t) :
        /\ Ask(t, d)
        /\ IF Supplied(d, FALSE)
           THEN /\ t' = t + 1
                /\ UNCHANGED <<pc, entry, in_file, whole, call, continuing,
                               eddies_time, t_range, terminate_all, tracks,
                               terminated_list, det_eddies, unassigned,
                               eddy_list, tracks_dict>>
           ELSE Leave("error")

\* split_track, in memory, not continuing: the search has reached the step
\* whose time is eddies_time[0], and the tracks are initialised from it.
ScanSplitMemory ==
    /\ pc = "scan" /\ ~in_file /\ entry = "split"
    /\ t = eddies_time[1]
    /\ \E d \in Answers(t) :
        /\ Ask(t, d)
        /\ IF Supplied(d, FALSE) THEN StartFrom(d, t) ELSE Leave("error")

\* The label of the step the main loop is at.
StepLabel ==
    IF in_file THEN eddies_time[Head(t_range) + 1] ELSE Head(t_range)

\* terminate_all after the availability test of the main loop.
MustTerminateAll(d) ==
    IF in_file THEN ~d.avail ELSE (~Supplied(d, FALSE) \/ terminate_all)

\* The branch "if terminate_all: ... continue".
ForceStep ==
    /\ pc = "loop" /\ t_range # <<>>
    /\ \E d \in Answers(StepLabel) :
        /\ Ask(StepLabel, d)
        /\ MustTerminateAll(d)
    /\ terminate_all' = TRUE
    /\ tracks' = ForceTerminated(tracks)
    /\ terminated_list' = ForceList(tracks, terminated_list)
    /\ t_range' = Tail(t_range)
    /\ UNCHANGED <<pc, entry, in_file, whole, call, continuing, eddies_time, t,
                   det_eddies, unassigned, eddy_list, tracks_dict>>

\* The step's eddy set is loaded and track_core is entered: unassigned
\* and eddy_list are built.
CoreBegin ==
    /\ pc = "loop" /\ t_range # <<>>
    /\ \E d \in Answers(StepLabel) :
        /\ Ask(StepLabel, d)
        /\ ~MustTerminateAll(d)
        /\ det_eddies' = Load(d, StepLabel)
        /\ unassigned' = Iota(Len(d.eddies))
    /\ terminate_all' = FALSE
    /\ IF RemovalFails(tracks, terminated_list)
       THEN pc' = "error" /\ eddy_list' = <<>>
       ELSE pc' = "core" /\ eddy_list' = ToProcess(tracks, terminated_list)
    /\ UNCHANGED <<entry, in_file, whole, call, continuing, eddies_time, t, t_range,
                   tracks, terminated_list, tracks_dict>>

\* One round of track_core's loop over eddy_list.
CoreTrack ==
    /\ pc = "core" /\ eddy_list # <<>>
    /\ LET ed == Head(eddy_list)
           m  == Match(tracks[ed], det_eddies, unassigned)
       IN  CASE m.outcome = "extend" ->
                  /\ tracks' = [tracks EXCEPT
                                   ![ed] = Extend(@, det_eddies[m.next_eddy])]
                  /\ unassigned' = Remove(unassigned, m.next_eddy)
                  /\ eddy_list' = Tail(eddy_list)
                  /\ UNCHANGED <<pc, terminated_list>>
             [] m.outcome = "terminate" ->
                  /\ tracks' = [tracks EXCEPT ![ed] = Terminate(@)]
                  /\ terminated_list' = Append(terminated_list, ed)
                  /\ eddy_list' = Tail(eddy_list)
                  /\ UNCHANGED <<pc, unassigned>>
             [] OTHER ->
                  /\ pc' = "error"
                  /\ UNCHANGED <<tracks, terminated_list, unassigned, eddy_list>>
    /\ UNCHANGED <<entry, in_file, whole, call, continuing, eddies_time, t, t_range,
                   terminate_all, det_eddies, tracks_dict, data>>

\* The end of track_core: a new track for every eddy left unassigned; the
\* driver then clears terminate_all and goes to the next step.
CoreBirths ==
    /\ pc = "core" /\ eddy_list = <<>>
    /\ tracks' = tracks \o Births(det_eddies, unassigned)
    /\ unassigned' = <<>>
    /\ terminate_all' = FALSE
    /\ t_range' = Tail(t_range)
    /\ pc' = "loop"
    /\ UNCHANGED <<entry, in_file, whole, call, continuing, eddies_time, t,
                   terminated_list, det_eddies, eddy_list, tracks_dict, data>>

\* After the last step: the tracks of length 1 are left out of the result.
Finish ==
    /\ pc = "loop" /\ t_range = <<>>
    /\ tracks_dict' = Filtered(tracks)
    /\ pc' = "done"
    /\ UNCHANGED <<entry, in_file, whole, call, continuing, eddies_time, t, t_range,
                   terminate_all, tracks, terminated_list, det_eddies,
                   unassigned, eddy_list, data>>

\* The label after the last step of the current time axis.
NextLabel == Last(eddies_time) + 1

\* split_track(continuing=True, tracks, terminated_list) on the time axis
\* that follows, file-backed: t = 0.
ResumeFile(n) ==
    /\ pc = "done" /\ entry = "split" /\ in_file
    /\ eddies_time' = Axis(NextLabel, n)
    /\ t_range' = PyRange(0, n)
    /\ t' = 0
    /\ continuing' = TRUE
    /\ terminate_all' = FALSE
    /\ pc' = "loop"
    /\ UNCHANGED <<entry, in_file, whole, call, tracks, terminated_list, det_eddies,
                   unassigned, eddy_list, tracks_dict, data>>

\* A continuing call in memory that starts at key 0 of the mapping.
ResumeMemoryFromZero(n) ==
    /\ pc = "done" /\ entry = "split" /\ ~in_file
    /\ eddies_time' = Axis(NextLabel, n)
    /\ t_range' = PyRange(0, n)
    /\ \E d \in Answers(NextLabel) :
        /\ Ask(NextLabel, d)
        /\ pc' = IF /\ \A l \in 1..NextLabel : Supplied(data[l], FALSE)
                    /\ Supplied(d, FALSE)
                 THEN "loop" ELSE "error"
    /\ t' = NextLabel
    /\ continuing' = TRUE
    /\ terminate_all' = FALSE
    /\ UNCHANGED <<entry, in_file, whole, call, tracks, terminated_list, det_eddies,
                   unassigned, eddy_list, tracks_dict>>

\* The same in memory: t is searched from key 0 of the mapping up to the
\* step whose time is the first of the new axis; reading a step that
\* cannot be supplied raises.
ResumeMemory(n) ==
    /\ pc = "done" /\ entry = "split" /\ ~in_file
    /\ eddies_time' = Axis(NextLabel, n)
    /\ t_range' = PyRange(NextLabel, NextLabel + n)
    /\ \E d \in Answers(NextLabel) :
        /\ Ask(NextLabel, d)
        /\ pc' = IF /\ \A l \in 1..NextLabel : Supplied(data[l], FALSE)
                    /\ Supplied(d, FALSE)
                 THEN "loop" ELSE "error"
    /\ t' = NextLabel
    /\ continuing' = TRUE
    /\ terminate_all' = FALSE
    /\ UNCHANGED <<entry, in_file, whole, call, tracks, terminated_list, det_eddies,
                   unassigned, eddy_list, tracks_dict>>

Next ==
    \/ ScanFile
    \/ ScanMemory
    \/ ScanSplitMemory
    \/ ForceStep
    \/ CoreBegin
    \/ CoreTrack
    \/ CoreBirths
    \/ Finish
    \/ \E n \in 1..(MaxSteps - NextLabel) : ResumeFile(n)
    \/ \E n \in 1..(MaxSteps - NextLabel) : ResumeMemory(n)

Spec == Init /\ [][Next]_vars

(* --------------- a whole run and a split run, same data --------------- *)
\* track has returned its result for the whole range: the same provider
\* is now read by split_track on the first n steps of that range.
StartSplit(n) ==
    /\ pc = "done" /\ entry = "track"
    /\ whole' = [done |-> TRUE, axis |-> eddies_time, result |-> tracks_dict]
    /\ entry' = "split"
    /\ continuing' = FALSE
    /\ eddies_time' = Axis(0, n)
    /\ t' = 0
    /\ t_range' = <<>>
    /\ terminate_all' = FALSE
    /\ tracks' = <<>>
    /\ terminated_list' = <<>>
    /\ det_eddies' = <<>>
    /\ tracks_dict' = <<>>
    /\ pc' = "scan"
    /\ UNCHANGED <<in_file, call, unassigned, eddy_list, data>>

\* The number of steps of the whole range after the current time axis.
Rest == Len(whole.axis) - NextLabel

\* The second call: continuing, on the rest of the range, with the tracks
\* and the terminated_list the first call returned.
HandoffFile == ~continuing /\ Rest >= 1 /\ ResumeFile(Rest)

HandoffMemory == ~continuing /\ Rest >= 1 /\ ResumeMemory(Rest)

NextHandoff ==
    \/ ScanFile
    \/ ScanMemory
    \/ ScanSplitMemory
    \/ ForceStep
    \/ CoreBegin
    \/ CoreTrack
    \/ CoreBirths
    \/ Finish
    \/ \E n \in 1..(Len(eddies_time) - 1) : StartSplit(n)
    \/ HandoffFile
    \/ HandoffMemory

InitHandoff == Init /\ entry = "track"

SpecHandoff == InitHandoff /\ [][NextHandoff]_vars

(* --------------- split_track on any part of the mapping --------------- *)
\* What the provider holds for the steps before the time axis: nothing,
\* or a detection set of at most one eddy.
Before(first) == [1..first -> StepData[1]]

\* A first split_track call, not continuing and without tracks and
\* terminated_list passed, on a time axis that starts at any step.
InitSplit ==
    /\ pc = "scan"
    /\ entry = "split"
    /\ in_file \in BOOLEAN
    /\ continuing = FALSE
    /\ \E first \in 0..(MaxSteps - 1) :
          /\ eddies_time \in {Axis(first, n) : n \in 1..(MaxSteps - first)}
          /\ data \in Before(first)
    /\ t = 0
    /\ t_range = <<>>
    /\ terminate_all = FALSE
    /\ tracks = <<>>
    /\ terminated_list = <<>>
    /\ det_eddies = <<>>
    /\ unassigned = <<>>
    /\ eddy_list = <<>>
    /\ tracks_dict = <<>>
    /\ whole = [done |-> FALSE, axis |-> <<>>, result |-> <<>>]
    /\ call = NoCall

\* The labels of the steps the main loop of the call went through.
LoopLabels ==
    IF in_file THEN {eddies_time[k] : k \in 2..Len(eddies_time)}
    ELSE (t + 1)..(Len(eddies_time) - 1)

\* terminated_list still names the list object of the default argument:
\* no step of the main loop took the branch that rebinds the name.
StillDefault == \A l \in LoopLabels : Supplied(data[l + 1], in_file)

\* split_track is called again, not continuing and again without tracks
\* and terminated_list: the parameters are bound to the list objects of
\* the default arguments, which the first call has appended to.
SplitAgain ==
    /\ pc = "done" /\ entry = "split" /\ ~continuing /\ ~whole.done
    /\ StillDefault
    /\ whole' = [done |-> TRUE, axis |-> eddies_time, result |-> tracks_dict]
    /\ pc' = "entered"
    /\ t' = 0
    /\ UNCHANGED <<entry, in_file, call, continuing, eddies_time, t_range,
                   terminate_all, tracks, terminated_list, det_eddies,
                   unassigned, eddy_list, tracks_dict, data>>

NextSplit ==
    \/ ScanFile
    \/ SearchSplitMemory
    \/ ScanSplitMemory
    \/ ForceStep
    \/ CoreBegin
    \/ CoreTrack
    \/ CoreBirths
    \/ Finish
    \/ SplitAgain

SpecSplit == InitSplit /\ [][NextSplit]_vars

(* ------- split_track on a later part, then a continuing call --------- *)
\* Detection sets of exactly n different eddies, in any order.
SetsOf(n) == {s \in EddySets[n] : Len(s) = n}

\* The provider holds four steps in memory.  split_track is called, not
\* continuing, on the time axis of the second and third step; the first
\* step has one eddy and the second has two, so that the search reaches
\* the second step and one track is initialised from it.
InitGap ==
    /\ pc = "scan"
    /\ entry = "split"
    /\ in_file = FALSE
    /\ continuing = FALSE
    /\ eddies_time = Axis(1, 2)
    /\ \E s0 \in SetsOf(1), s1 \in SetsOf(2) :
       \E d2 \in StepData[1], d3 \in StepData[2] :
          data = <<[avail |-> TRUE, eddies |-> s0],
                   [avail |-> TRUE, eddies |-> s1], d2, d3>>
    /\ t = 0
    /\ t_range = <<>>
    /\ terminate_all = FALSE
    /\ tracks = <<>>
    /\ terminated_list = <<>>
    /\ det_eddies = <<>>
    /\ unassigned = <<>>
    /\ eddy_list = <<>>
    /\ tracks_dict = <<>>
    /\ whole = [done |-> FALSE, axis |-> <<>>, result |-> <<>>]
    /\ call = NoCall

\* The continuing call on the time axis of the fourth step, with the
\* tracks and the terminated_list the first call returned.
ContinueMemory == ~continuing /\ ResumeMemory(1)

NextGap ==
    \/ SearchSplitMemory
    \/ ScanSplitMemory
    \/ Finish
    \/ ContinueMemory
    \/ CoreBegin
    \/ CoreTrack
    \/ CoreBirths

SpecGap == InitGap /\ [][NextGap]_vars

(* ------------------- one track_core call, any pool -------------------- *)
\* The eddies of a step handed to track_core.  Three of them are of the
\* reference kind and lie on a line, each on the rim of the next one's
\* search region, so that the middle one has two candidates at the same
\* distance and the outer ones are out of each other's reach; one is of
\* the other type, in reach of the first two; one is of twice the area,
\* in reach of the last two.
CoreEddies ==
    { Eddy(0, 0, 4, 4, "cyclonic"),
      Eddy(1000, 0, 4, 4, "cyclonic"),
      Eddy(2000, 0, 4, 4, "cyclonic"),
      Eddy(500, 500, 4, 4, "anticyclonic"),
      Eddy(1500, 0, 4, 8, "cyclonic") }

\* Detection sets of up to MaxPool different eddies, in any order.
CoreSets ==
    UNION { { s \in [1..n -> CoreEddies] :
                \A i, j \in 1..n : i # j => s[i] # s[j] } : n \in 0..MaxPool }

\* track has initialised its tracks from the first of two steps; the
\* provider holds a detection set, or nothing, for the second.
InitCore ==
    /\ pc = "loop"
    /\ entry = "track"
    /\ in_file \in BOOLEAN
    /\ continuing = FALSE
    /\ eddies_time = Axis(0, 2)
    /\ t = 0
    /\ t_range = PyRange(1, 2)
    /\ terminate_all = FALSE
    /\ \E s0 \in CoreSets \ {<<>>} :
       \E d1 \in {[avail |-> FALSE, eddies |-> <<>>]}
                  \cup {[avail |-> TRUE, eddies |-> s] : s \in CoreSets} :
          /\ data = <<[avail |-> TRUE, eddies |-> s0], d1>>
          /\ det_eddies = Load([avail |-> TRUE, eddies |-> s0], 0)
          /\ tracks = InitialTracks(Load([avail |-> TRUE, eddies |-> s0], 0))
    /\ terminated_list = <<>>
    /\ unassigned = <<>>
    /\ eddy_list = <<>>
    /\ tracks_dict = <<>>
    /\ whole = [done |-> FALSE, axis |-> <<>>, result |-> <<>>]
    /\ call = NoCall

NextCore ==
    \/ ForceStep
    \/ CoreBegin
    \/ CoreTrack
    \/ CoreBirths
    \/ Finish

SpecCore == InitCore /\ [][NextCore]_vars

(* ------------- a mapping with the records of another time ------------- *)
\* track or split_track, in memory, has initialised its tracks from the
\* first of two steps.  Under the key of the second step the mapping holds
\* nothing, or records whose time field is that of the second step or of
\* a later one.
InitShifted ==
    /\ pc = "loop"
    /\ entry \in {"track", "split"}
    /\ in_file = FALSE
    /\ continuing = FALSE
    /\ eddies_time = Axis(0, 2)
    /\ t = 0
    /\ t_range = PyRange(1, 2)
    /\ terminate_all = FALSE
    /\ \E s0 \in SetsOf(2) :
       \E d1 \in {[avail |-> FALSE, eddies |-> <<>>, time |-> 1]}
                  \cup {[avail |-> TRUE, eddies |-> s, time |-> at] :
                           s \in EddySets[2], at \in 1..MaxSteps} :
          /\ data = <<[avail |-> TRUE, eddies |-> s0], d1>>
          /\ det_eddies = Load([avail |-> TRUE, eddies |-> s0], 0)
          /\ tracks = InitialTracks(Load([avail |-> TRUE, eddies |-> s0], 0))
    /\ terminated_list = <<>>
    /\ unassigned = <<>>
    /\ eddy_list = <<>>
    /\ tracks_dict = <<>>
    /\ whole = [done |-> FALSE, axis |-> <<>>, result |-> <<>>]
    /\ call = NoCall

NextShifted ==
    \/ ForceStep
    \/ CoreBegin
    \/ CoreTrack
    \/ CoreBirths
    \/ Finish

SpecShifted == InitShifted /\ [][NextShifted]_vars

(* ---------------------- calls of the helper functions ------------------ *)
\* No driver runs; one helper function is called once.
InitPure ==
    /\ pc = "pure"
    /\ entry = "track"
    /\ in_file = FALSE
    /\ continuing = FALSE
    /\ eddies_time = <<>>
    /\ t = 0
    /\ t_range = <<>>
    /\ terminate_all = FALSE
    /\ tracks = <<>>
    /\ terminated_list = <<>>
    /\ det_eddies = <<>>
    /\ unassigned = <<>>
    /\ eddy_list = <<>>
    /\ tracks_dict = <<>>
    /\ data = <<>>
    /\ whole = [done |-> FALSE, axis |-> <<>>, result |-> <<>>]
    /\ call = NoCall

\* The state of the drivers, which a helper call leaves alone.
drivers ==
    <<pc, entry, in_file, continuing, eddies_time, t, t_range, terminate_all,
      tracks, terminated_list, det_eddies, unassigned, eddy_list, tracks_dict,
      data, whole>>

\* The record of a call.
Returns(fn, args, result) == [fn |-> fn, args |-> args, result |-> result]

CallPrepare ==
    /\ pc = "pure" /\ call = NoCall
    /\ \E dE \in (0 - MaxExtent)..MaxExtent, dt \in 1..MaxDt :
          call' = Returns("prepare", [dE |-> dE, dt |-> dt],
                          prepare([dE |-> dE, dt |-> dt]))
    /\ UNCHANGED drivers

CallCalculateD ==
    /\ pc = "pure" /\ call = NoCall
    /\ \E dE \in 1..MaxExtent, lon \in {-10, 0}, dt \in 1..MaxDt,
          lat \in {-19, -18, -17, 0, 17, 18, 19}, rossrad \in RossTables :
          call' = Returns("calculate_d",
                          [dE |-> dE, lon |-> lon, lat |-> lat,
                           rossrad |-> rossrad, dt |-> dt],
                          calculate_d(dE, lon, lat, rossrad, dt))
    /\ UNCHANGED drivers

\* The extents are even, so that the center of the ellipse, which lies
\* half the difference of the extents west of (x0, y0), has whole
\* coordinates.
CallIsInEllipse ==
    /\ pc = "pure" /\ call = NoCall
    /\ \E x0, y0 \in -1..1 :
       \E dE \in {2 * k : k \in 1..MaxExtent} :
       \E d \in {2 * k : k \in 0..(MaxExtent + 1)} :
       \E x \in (x0 - 2 * MaxExtent - 2)..(x0 + 2 * MaxExtent + 1) :
       \E y \in (y0 - 2 * MaxExtent)..(y0 + 2 * MaxExtent) :
          call' = Returns("is_in_ellipse",
                          [x0 |-> x0, y0 |-> y0, dE |-> dE, d |-> d,
                           x |-> x, y |-> y],
                          is_in_ellipse(x0, y0, dE, d, x, y))
    /\ UNCHANGED drivers

\* The years of the start date: a century that is no leap year, a
\* century that is one, a year before a leap year and a leap year.
Years == {1900, 2000, 2003, 2004}

\* prepare is called for a time range that starts in the days up to the
\* end of February, or in the same days of December.
CallPrepareTime ==
    /\ pc = "pure" /\ call = NoCall
    /\ \E model \in {"ORCA", "MITgcm"}, calendar \in {"standard", "360_day"} :
       \E year \in Years, month \in {2, 12}, day \in (27 - MaxDt)..28 :
       \E dt \in 1..MaxDt, days \in 0..(2 * MaxDt) :
          LET start == [year |-> year, month |-> month, day |-> day]
              noleap == IF calendar = "standard" THEN "noleap" ELSE "360_day"
              end == DateOf(noleap, DayNumber(noleap, start) + days, 0)
              tp == [model |-> model, calendar |-> calendar, dt |-> dt,
                     start_time |-> start,
                     end_time |-> [year |-> end.year, month |-> end.month,
                                   day |-> end.day]]
          IN  call' = Returns("prepare_eddies_time", tp,
                              prepare_eddies_time(tp))
    /\ UNCHANGED drivers

NextPure ==
    \/ CallPrepareTime
    \/ CallPrepare
    \/ CallCalculateD
    \/ CallIsInEllipse

SpecPure == InitPure /\ [][NextPure]_vars

(* ------------------------------ properties ---------------------------- *)
\* The per-step sequences of a track.
Steps(track) ==
    <<track.lon, track.lat, track.amp, track.area, track.scale, track.time>>

\* The main loop is at a step, and the provider's answer for it is known
\* in the next state.
AtStep == pc = "loop" /\ t_range # <<>> /\ Len(data') > StepLabel

\* C1: termination is absorbing: a track whose terminated flag is set keeps
\* the flag in every later step of the run, and none of its sequences lon,
\* lat, amp, area, scale and time changes any more.
C1_TerminationAbsorbing ==
    [][\A ed \in DOMAIN tracks :
          tracks[ed].terminated =>
              /\ ed \in DOMAIN tracks'
              /\ tracks'[ed].terminated
              /\ Steps(tracks'[ed]) = Steps(tracks[ed])]_vars

\* A track ended at some step, and a track was born two or more steps after
\* its last entry: steps were processed while it was terminated.
C1_Witness ==
    \E i, j \in DOMAIN tracks :
        /\ tracks[i].terminated
        /\ Last(tracks[i].time) + 2 <= tracks[j].time[1]

\* An unassigned eddy passes proximity, similarity (amp and area) and
\* type match for a track.
Passes(track, item) ==
    /\ eddy_is_near(track, item)
    /\ is_similar_amp(track, item)
    /\ is_similar_area(track, item)
    /\ eddy_is_same_type(track, item)

\* C2: whenever track_core processes an Active track while the unassigned
\* pool holds an eddy that passes proximity, similarity and type match, the
\* track gains exactly one entry in that round and stays Active, wherever
\* the passing eddy sits in the pool.
C2_PassingEddyExtends ==
    [][(/\ pc = "core" /\ eddy_list # <<>>
        /\ \E p \in DOMAIN unassigned :
              Passes(tracks[Head(eddy_list)], det_eddies[unassigned[p]]))
       => /\ pc' = "core"
          /\ Len(tracks'[Head(eddy_list)].lon)
                 = Len(tracks[Head(eddy_list)].lon) + 1
          /\ ~tracks'[Head(eddy_list)].terminated]_vars

\* The split run has ended: a call raised or found no eddies, or the
\* continuing call returned.
SplitEnded ==
    /\ whole.done /\ entry = "split"
    /\ pc \in {"error", "none"} \/ (pc = "done" /\ continuing)

\* C3: split_track on the first part of a range and then, continuing with
\* the returned tracks and terminated_list, on the rest yields the filtered
\* tracks that one track call yields on the whole range and the same data,
\* file-backed or in memory, also when a step of the first part has no
\* data.
C3_SplitEqualsWhole ==
    SplitEnded => (pc = "done" /\ tracks_dict = whole.result)

\* The provider held exactly these detection sets for the first steps.
Held(sets) ==
    /\ Len(data) >= Len(sets)
    /\ \A k \in DOMAIN sets : data[k].avail /\ data[k].eddies = sets[k]

\* The second eddy continues a track that consists of the first.
Continues(e1, e2) == Passes(NewTrack(Stamp(e1, 0), TRUE), e2)

\* C4: track on two steps that hold one eddy each, the second continuing
\* the first, returns exactly one track, of length 2, with exist_at_start
\* and not terminated; with a third step without data it returns that
\* track terminated, still of length 2.
C4_TwoStepScenario ==
    \A e1, e2 \in Eddies :
        (/\ entry = "track" /\ pc = "done"
         /\ Continues(e1, e2)
         /\ Held(<<<<e1>>, <<e2>>>>)
         /\ Len(eddies_time) \in {2, 3}
         /\ Len(eddies_time) = 3 => ~data[3].avail)
        => /\ DOMAIN tracks_dict = {0}
           /\ Len(tracks_dict[0].lon) = 2
           /\ tracks_dict[0].exist_at_start
           /\ tracks_dict[0].terminated = (Len(eddies_time) = 3)

\* A call that is not continuing has initialised its tracks and has not
\* processed a step since.
JustInitialised ==
    /\ pc = "loop" /\ ~continuing
    /\ t_range = PyRange(t + 1, Len(eddies_time))

\* C5: at the initial timestep track and non-continuing split_track create
\* one track per detected eddy: n tracks for n eddies, each with
\* exist_at_start, not terminated, and a history of one entry.
C5_OneTrackPerInitialEddy ==
    JustInitialised =>
        /\ Len(tracks) = Len(det_eddies)
        /\ \A ed \in DOMAIN tracks :
              /\ tracks[ed].exist_at_start
              /\ ~tracks[ed].terminated
              /\ Steps(tracks[ed]) = Steps(NewTrack(det_eddies[ed], TRUE))

\* C6: every eddy that track_core appends to a track has amp and area
\* strictly between eddy_scale_min and eddy_scale_max times the track's
\* last amp and last area.
C6_AppendedEddyIsSimilar ==
    [][\A ed \in DOMAIN tracks :
          Len(tracks'[ed].lon) > Len(tracks[ed].lon) =>
              /\ InScale(Last(tracks'[ed].amp), Last(tracks[ed].amp))
              /\ InScale(Last(tracks'[ed].area), Last(tracks[ed].area))]_vars

\* C7: if the eddy set of a step of the main loop cannot be supplied, every
\* track is terminated at that step, no track gains an entry, and no track
\* is created.
C7_UnavailableStepTerminatesAll ==
    [][(AtStep /\ ~Supplied(data'[StepLabel + 1], in_file))
       => /\ Len(tracks') = Len(tracks)
          /\ \A ed \in DOMAIN tracks :
                /\ tracks'[ed].terminated
                /\ Steps(tracks'[ed]) = Steps(tracks[ed])]_vars

\* A track of two or more entries was still Active when the step after its
\* last entry could not be supplied, and is terminated.
C7_Witness ==
    \E ed \in DOMAIN tracks :
        /\ tracks[ed].terminated
        /\ Len(tracks[ed].lon) >= 2
        /\ Len(data) >= Last(tracks[ed].time) + 2
        /\ ~Supplied(data[Last(tracks[ed].time) + 2], in_file)

\* C8: a step without data affects that step only: the next step whose
\* eddy set can be supplied is processed by track_core, file-backed or in
\* memory.
C8_UnavailabilityIsConfined ==
    [][(/\ AtStep /\ StepLabel >= 1
        /\ ~Supplied(data[StepLabel], in_file)
        /\ Supplied(data'[StepLabel + 1], in_file))
       => pc' = "core"]_vars

\* C9: the sequences lon, lat, amp, area, scale and time of a track have
\* the same length at every point of a run.
C9_EqualLengths ==
    \A ed \in DOMAIN tracks :
        \A k \in DOMAIN Steps(tracks[ed]) :
            Len(Steps(tracks[ed])[k]) = Len(tracks[ed].lon)

\* A track has been extended, next to a track of one entry.
C9_Witness ==
    \E i, j \in DOMAIN tracks :
        Len(tracks[i].lon) >= 2 /\ Len(tracks[j].time) = 1

\* C10: the type of a track is never written after the track is created.
C10_TypeIsFixed ==
    [][\A ed \in DOMAIN tracks :
          ed \in DOMAIN tracks' /\ tracks'[ed].type = tracks[ed].type]_vars

\* Tracks of both types exist; one of them was extended, and both were
\* ended by a whole-step termination.
C10_Witness ==
    \E i, j \in DOMAIN tracks :
        /\ tracks[i].type # tracks[j].type
        /\ tracks[i].terminated /\ tracks[j].terminated
        /\ Len(tracks[i].lon) >= 2
        /\ Len(data) >= Last(tracks[i].time) + 2
        /\ ~data[Last(tracks[i].time) + 2].avail

\* The tracks of the list that have this many entries or more.
LongTracks(n) == {ed \in DOMAIN tracks : Len(tracks[ed].lon) >= n}

\* C11: the filtered result of track and split_track holds no track of
\* exactly one recorded step and holds every track of two or more steps,
\* each once, while the raw track list keeps the one-step tracks.
C11_FilterDropsOneStepTracks ==
    [][(pc # "done" /\ pc' = "done")
       => /\ tracks' = tracks
          /\ \A k \in DOMAIN tracks_dict' : Len(tracks_dict'[k].lon) >= 2
          /\ \A ed \in LongTracks(2) :
                \E k \in DOMAIN tracks_dict' : tracks_dict'[k] = tracks[ed]
          /\ Cardinality(DOMAIN tracks_dict') = Cardinality(LongTracks(2))]_vars

\* A call has returned; its raw list holds a track of two steps and a
\* track of one step, and the result holds one track.
C11_Witness ==
    /\ pc = "done"
    /\ LongTracks(2) # {}
    /\ LongTracks(1) # LongTracks(2)
    /\ DOMAIN tracks_dict = {0}

\* The last entry of a track, and the entry a detected eddy makes.
LastEntry(track) ==
    <<Last(track.lon), Last(track.lat), Last(track.amp), Last(track.area),
      Last(track.scale), Last(track.time)>>

EntryOf(e) == <<e.lon, e.lat, e.amp, e.area, e.scale, e.time>>

\* The tracks that were extended by this eddy of the step in progress.
Takers(e) ==
    {ed \in DOMAIN tracks :
        Len(tracks[ed].lon) >= 2 /\ LastEntry(tracks[ed]) = EntryOf(det_eddies[e])}

\* C12: within one track_core step no detected eddy is appended to more
\* than one track: an accepted eddy has left the unassigned pool before
\* the next track is processed, and the eddies that left the pool are the
\* eddies that were appended.
C12_EddyGoesToOneTrack ==
    pc = "core" =>
        \A e \in DOMAIN det_eddies :
            /\ Cardinality(Takers(e)) <= 1
            /\ (e \in Range(unassigned)) <=> (Takers(e) = {})

\* Two tracks were extended in the same step, by different eddies.
C12_Witness ==
    /\ pc = "core"
    /\ \E e1, e2 \in DOMAIN det_eddies :
          e1 # e2 /\ Takers(e1) # {} /\ Takers(e2) # {}

\* C13: Active tracks are processed in creation order: when track_core
\* processes a track, every older track that is still Active has already
\* been extended in this step, so an eddy two Active tracks would accept
\* goes to the older one.
C13_CreationOrder ==
    [][pc = "core" =>
         \A i \in DOMAIN tracks :
            tracks'[i] # tracks[i] =>
               \A j \in 1..(i - 1) :
                  \/ tracks[j].terminated
                  \/ Last(tracks[j].time) = det_eddies[1].time]_vars

\* An older track was extended by an eddy that is near a younger track,
\* of similar area and of its type; the younger track was terminated.
C13_Witness ==
    /\ pc = "core"
    /\ \E e \in DOMAIN det_eddies :
       \E i \in Takers(e) :
       \E j \in DOMAIN tracks :
          /\ i < j
          /\ tracks[j].terminated
          /\ eddy_is_near(tracks[j], det_eddies[e])
          /\ SimilarStage(tracks[j], det_eddies[e])
          /\ eddy_is_same_type(tracks[j], det_eddies[e])

\* track_core is about to process the track at the head of eddy_list.
Round == pc = "core" /\ eddy_list # <<>>

Current == tracks[Head(eddy_list)]

\* The round appended an entry to the track, and the entry is this eddy's.
Extended ==
    Len(tracks'[Head(eddy_list)].lon) = Len(tracks[Head(eddy_list)].lon) + 1

Accepted(e) == LastEntry(tracks'[Head(eddy_list)]) = EntryOf(det_eddies[e])

\* (lon, lat) distance, squared, between a track's last center and an eddy.
Apart(track, item) ==
    LET dx == item.lon - track.lon[Len(track.lon)]
        dy == item.lat - track.lat[Len(track.lat)]
    IN  dx * dx + dy * dy

\* The eddy survives the three stages as track_core applies them.
Survives(track, item) ==
    /\ eddy_is_near(track, item)
    /\ SimilarStage(track, item)
    /\ eddy_is_same_type(track, item)

\* The pool positions of the survivors for the track of the round.
Survivors ==
    {q \in DOMAIN unassigned : Survives(Current, det_eddies[unassigned[q]])}

\* A track as it was before its last entry was appended.
Prior(track) ==
    [track EXCEPT !.lon = SubSeq(@, 1, Len(@) - 1),
                  !.lat = SubSeq(@, 1, Len(@) - 1),
                  !.amp = SubSeq(@, 1, Len(@) - 1),
                  !.area = SubSeq(@, 1, Len(@) - 1)]

\* C14: among the candidates that survive all three filters for a track,
\* track_core accepts the one whose Euclidean distance in (lon, lat) to
\* the track's last center is smallest.
C14_NearestSurvivorAccepted ==
    [][(Round /\ Extended)
       => \E p \in Survivors :
             /\ Accepted(unassigned[p])
             /\ \A q \in Survivors :
                   Apart(Current, det_eddies[unassigned[p]])
                      <= Apart(Current, det_eddies[unassigned[q]])]_vars

\* A track was extended by an eddy although a survivor farther away came
\* before it in the step's detection set.
C14_Witness ==
    /\ pc = "core"
    /\ \E e \in DOMAIN det_eddies :
       \E i \in Takers(e) :
       \E f \in 1..(e - 1) :
          /\ Survives(Prior(tracks[i]), det_eddies[f])
          /\ Apart(Prior(tracks[i]), det_eddies[f])
                > Apart(Prior(tracks[i]), det_eddies[e])

\* The survivors at the smallest distance from the track of the round.
Nearest ==
    {p \in Survivors :
        \A q \in Survivors :
            Apart(Current, det_eddies[unassigned[p]])
               <= Apart(Current, det_eddies[unassigned[q]])}

\* C15: when two or more survivors are at exactly the same minimal
\* distance from the track's last center, track_core accepts the one that
\* occurs first in the pool and the step goes on normally.
C15_TieGoesToFirst ==
    [][(Round /\ Cardinality(Nearest) >= 2)
       => /\ pc' = "core"
          /\ Extended
          /\ \E p \in Nearest :
                Accepted(unassigned[p]) /\ \A q \in Nearest : p <= q]_vars

\* C16: after all Active tracks have been processed in a track_core
\* step, each eddy still unassigned starts exactly one new track, with
\* exist_at_start False, terminated False and a one-entry history taken
\* from that eddy; no track is created for an eddy that was assigned, and
\* the existing tracks stay as they are.
C16_UnassignedEddiesStartTracks ==
    [][(pc = "core" /\ pc' = "loop")
       => /\ Len(tracks') = Len(tracks) + Len(unassigned)
          /\ \A ed \in DOMAIN tracks : tracks'[ed] = tracks[ed]
          /\ \A k \in DOMAIN unassigned :
                LET born == tracks'[Len(tracks) + k]
                    e == det_eddies[unassigned[k]]
                IN  /\ ~born.exist_at_start
                    /\ ~born.terminated
                    /\ Steps(born) = <<<<e.lon>>, <<e.lat>>, <<e.amp>>,
                                       <<e.area>>, <<e.scale>>, <<e.time>>>>
                    /\ born.type = e.type
          /\ \A e \in DOMAIN det_eddies :
                Takers(e) # {} =>
                   \A n \in (Len(tracks) + 1)..Len(tracks') :
                      LastEntry(tracks'[n]) # EntryOf(det_eddies[e])]_vars

\* A step has ended in which one eddy extended a track and another eddy
\* started a track.
C16_Witness ==
    /\ pc = "loop" /\ t_range = <<>>
    /\ \E i, j \in DOMAIN tracks :
          /\ Len(tracks[i].lon) = 2 /\ Last(tracks[i].time) = 1
          /\ tracks[j].time = <<1>> /\ ~tracks[j].exist_at_start

\* C17: if the proximity, similarity or type stage leaves no survivor for
\* a track, track_core sets the track's terminated flag and appends its
\* index to the terminated list; the track's sequences, the other tracks
\* and the unassigned pool stay as they are, and the step goes on.
C17_NoSurvivorTerminates ==
    [][(Round /\ unassigned # <<>> /\ Survivors = {})
       => /\ pc' = "core"
          /\ tracks' = [tracks EXCEPT ![Head(eddy_list)].terminated = TRUE]
          /\ terminated_list' = Append(terminated_list, Head(eddy_list))
          /\ unassigned' = unassigned]_vars

\* A track was terminated with a pool that holds no eddy in its reach,
\* and another with a pool that holds an eddy in its reach and of similar
\* area, but none that is also of its type.
C17_Witness ==
    /\ pc = "core" /\ unassigned # <<>>
    /\ \E i, j \in Range(terminated_list) :
          /\ \A e \in Range(unassigned) : ~eddy_is_near(tracks[i], det_eddies[e])
          /\ \E f \in Range(unassigned) :
                /\ eddy_is_near(tracks[j], det_eddies[f])
                /\ SimilarStage(tracks[j], det_eddies[f])
          /\ \A f \in Range(unassigned) : ~Survives(tracks[j], det_eddies[f])

\* C18: every eddy appended to a track by track_core has the type of the
\* track; an eddy of the other type is not accepted even when it is the
\* nearest in the ellipse and within the scale bounds.
C18_AppendedEddyHasTrackType ==
    [][(Round /\ Extended)
       => \E e \in Range(unassigned) :
             Accepted(e) /\ det_eddies[e].type = Current.type]_vars

\* A track was extended although an eddy of the other type, of similar
\* amp and area, was nearer to it inside its search region.
C18_Witness ==
    /\ pc = "core"
    /\ \E e, f \in DOMAIN det_eddies :
       \E i \in Takers(e) :
          /\ det_eddies[f].type # tracks[i].type
          /\ eddy_is_near(Prior(tracks[i]), det_eddies[f])
          /\ is_similar_amp(Prior(tracks[i]), det_eddies[f])
          /\ is_similar_area(Prior(tracks[i]), det_eddies[f])
          /\ Apart(Prior(tracks[i]), det_eddies[f])
                < Apart(Prior(tracks[i]), det_eddies[e])

\* The squared radius of the search region on the cartesian grid, where
\* the western extent equals the eastern one.
Reach2 == (trac_param.dE * Km) * (trac_param.dE * Km)

\* C19: every eddy appended to a track by track_core has its center inside
\* the search ellipse around the track's last position, boundary included;
\* an eddy outside the ellipse is never accepted.
C19_AppendedEddyIsInEllipse ==
    [][(Round /\ Extended)
       => \E e \in Range(unassigned) :
             Accepted(e) /\ Apart(Current, det_eddies[e]) <= Reach2]_vars

\* A track was extended by an eddy on the boundary of its search region
\* while an eddy of its type and area outside the region was in the pool.
C19_Witness ==
    /\ pc = "core"
    /\ \E e \in DOMAIN det_eddies :
       \E f \in Range(unassigned) :
       \E i \in Takers(e) :
          /\ Apart(Prior(tracks[i]), det_eddies[e]) = Reach2
          /\ Apart(Prior(tracks[i]), det_eddies[f]) > Reach2
          /\ SimilarStage(Prior(tracks[i]), det_eddies[f])
          /\ eddy_is_same_type(Prior(tracks[i]), det_eddies[f])

\* C20: tracks are never removed from the track list: across the steps of
\* a run, whole-step terminations included, the list never gets shorter
\* and every track keeps its index.
C20_TracksAreNeverRemoved ==
    [][/\ Len(tracks') >= Len(tracks)
       /\ \A ed \in DOMAIN tracks :
             /\ tracks'[ed].type = tracks[ed].type
             /\ tracks'[ed].exist_at_start = tracks[ed].exist_at_start
             /\ \A k \in DOMAIN Steps(tracks[ed]) :
                   SubSeq(Steps(tracks'[ed])[k], 1, Len(tracks[ed].lon))
                      = Steps(tracks[ed])[k]]_vars

\* A track was ended by a whole-step termination, and a track was created
\* behind it in a later step.
C20_Witness ==
    \E i, j \in DOMAIN tracks :
        /\ i < j
        /\ tracks[i].terminated
        /\ Len(data) >= Last(tracks[i].time) + 2
        /\ ~Supplied(data[Last(tracks[i].time) + 2], in_file)
        /\ tracks[j].time[1] > Last(tracks[i].time) + 1

\* C22: prepare maps the configured dE as follows: 0 gives 150/(7/dt), a
\* positive dE is kept, a negative dE aborts the run before any step is
\* processed; the caller's parameter dictionary is not modified.
C22_PrepareMapsDE ==
    call.fn = "prepare" =>
        LET dE == call.args.dE
            out == call.result.t_p.dE
        IN  /\ call.result.exit = (dE < 0)
            /\ dE = 0 => out[1] * 7 = 150 * call.args.dt * out[2]
            /\ dE > 0 => out[1] = dE * out[2]
            /\ call.result.trac_param = call.args

\* prepare was called with dE = 0 and dt = 5 and returned 750/7 km.
C22_Witness ==
    /\ call.fn = "prepare"
    /\ call.args = [dE |-> 0, dt |-> 5]
    /\ call.result.t_p.dE = <<750, 7>>
    /\ ~call.result.exit

\* C23: calculate_d returns exactly dE for every latitude with |lat| >= 18,
\* 18 and -18 included, whatever lon, dt and the Rossby table are.
C23_ExtraTropicsUseDE ==
    (call.fn = "calculate_d" /\ Abs(call.args.lat) >= 18)
        => call.result = <<call.args.dE, 1>>

\* calculate_d was called at 18 degrees south, west of Greenwich, with a
\* table of non-zero speeds, and returned dE.
C23_Witness ==
    /\ call.fn = "calculate_d"
    /\ call.args.lat = -18 /\ call.args.lon < 0
    /\ call.args.rossrad.cR[<<0, 0>>] # 0
    /\ call.result = <<call.args.dE, 1>>

\* C24: for is_in_ellipse with dE > 0 the center (x1, y1) of the ellipse
\* is inside, and the point (x1 + a, y1), at distance a along the major
\* axis, is on the boundary and is reported inside: the points east of
\* it at that latitude are outside.
C24_CenterAndVertexAreInside ==
    (call.fn = "is_in_ellipse" /\ call.args.dE > 0) =>
        LET dW == IF call.args.d > call.args.dE THEN call.args.d
                  ELSE call.args.dE
            dx2 == 2 * (call.args.x - call.args.x0)
        IN  (call.args.y = call.args.y0) =>
               /\ dx2 = call.args.dE - dW => call.result
               /\ dx2 = 2 * call.args.dE => call.result
               /\ dx2 > 2 * call.args.dE => ~call.result

\* is_in_ellipse was called with a western extent larger than the eastern
\* one and the eastern vertex of the ellipse, and returned True.
C24_Witness ==
    /\ call.fn = "is_in_ellipse"
    /\ call.args.d > call.args.dE
    /\ call.args.y = call.args.y0
    /\ call.args.x = call.args.x0 + call.args.dE
    /\ call.result

\* C21: if no step of the whole time axis yields an eddy set, track
\* returns the empty result of 'no eddies found' without raising,
\* file-backed as well as in memory.
C21_NoDataReturnsNone ==
    (/\ entry = "track" /\ pc \in {"none", "error", "done"}
     /\ Len(data) >= Len(eddies_time)
     /\ \A k \in 1..Len(eddies_time) : ~Supplied(data[k], in_file))
    => pc = "none"

\* The label of the step the initial scan is at.
ScanLabel == IF in_file THEN eddies_time[t + 1] ELSE t

\* C26: when a step at the start of the time axis has no eddy set and
\* steps follow it, track scans on to the next step, file-backed as well
\* as in memory, to initialise the tracks from the first step with data.
C26_ScanSkipsStepsWithoutData ==
    [][(/\ pc = "scan" /\ entry = "track"
        /\ t + 1 < Len(eddies_time)
        /\ Len(data') > ScanLabel
        /\ ~Supplied(data'[ScanLabel + 1], in_file))
       => (pc' = "scan" /\ t' = t + 1)]_vars

\* C25: the filtered result of track and split_track is keyed by the
\* dense integers 0..n-1, and the tracks come under increasing keys in the
\* order in which they were created.
C25_ResultKeysAreDense ==
    [][(pc # "done" /\ pc' = "done")
       => /\ DOMAIN tracks_dict' = 0..(Cardinality(DOMAIN tracks_dict') - 1)
          /\ \A k, l \in DOMAIN tracks_dict' :
                k < l =>
                   \E i, j \in DOMAIN tracks :
                      /\ i < j
                      /\ tracks[i] = tracks_dict'[k]
                      /\ tracks[j] = tracks_dict'[l]]_vars

\* A call has returned two tracks out of a list of more than two.
C25_Witness ==
    /\ pc = "done"
    /\ DOMAIN tracks_dict = {0, 1}
    /\ Len(tracks) > 2

\* C27: when an Active track is processed by track_core while the
\* unassigned pool is empty, the track is terminated and recorded in the
\* terminated list, and the step goes on normally.
C27_EmptyPoolTerminates ==
    [][(Round /\ unassigned = <<>>)
       => /\ pc' = "core"
          /\ tracks'[Head(eddy_list)].terminated
          /\ terminated_list' = Append(terminated_list, Head(eddy_list))]_vars

\* C28: on a continuing in-memory split_track call the search for the
\* step whose time is the first timestamp of the new time axis ends, with
\* that step or with an error; the main loop starts at that step and
\* processes exactly len(time axis) consecutive steps.
C28_ContinuingStartsAtMatchingStep ==
    [][(~in_file /\ continuing')
       => \/ pc = "done" /\ pc' = "error"
          \/ pc = "done" /\ pc' = "loop" /\ t_range' = eddies_time'
          \/ /\ pc # "done"
             /\ \/ t_range' = t_range
                \/ t_range # <<>> /\ t_range' = Tail(t_range)
             /\ pc' = "done" => t_range = <<>>]_vars

\* A continuing in-memory call on two steps, the first of them not the
\* first key of the mapping, has returned, and a track has an entry of
\* the last step.
C28_Witness ==
    /\ pc = "done" /\ continuing /\ ~in_file
    /\ Len(eddies_time) >= 2 /\ eddies_time[1] >= 1
    /\ \E ed \in DOMAIN tracks : Last(tracks[ed].time) = Last(eddies_time)

\* The labels of the steps still to be processed by the main loop.
Ahead(range) ==
    IF in_file THEN [k \in DOMAIN range |-> eddies_time[range[k] + 1]]
    ELSE range

\* C29: a non-continuing in-memory split_track call whose time axis starts
\* at index t0 of the mapping processes the len(time axis) - 1 steps that
\* follow t0, also when t0 > 0, as the file-backed mode does for the same
\* time axis.
C29_SplitCoversItsTimeAxis ==
    [][(pc = "scan" /\ pc' = "loop" /\ entry = "split" /\ ~continuing)
       => Ahead(t_range') = Tail(eddies_time)]_vars

\* C30: two successive non-continuing split_track calls made without
\* passing tracks and terminated_list are independent: the second call
\* starts from an empty track list and an empty terminated list.
C30_SecondCallStartsEmpty ==
    pc = "entered" => (tracks = <<>> /\ terminated_list = <<>>)

\* The tracks that are not terminated.
Active(trks) == {ed \in DOMAIN trks : ~trks[ed].terminated}

\* C31: at every step boundary of a run a track's index is in the
\* terminated list if and only if the track's terminated flag is true, and
\* an index once in the list stays in it.
C31_ListMatchesFlags ==
    [][/\ pc' \in {"loop", "done"} =>
            \A ed \in DOMAIN tracks' :
                tracks'[ed].terminated <=> ed \in Range(terminated_list')
       /\ Range(terminated_list) \subseteq Range(terminated_list')]_vars

\* At a step boundary one track is terminated and listed and another is
\* not, after a step without data and a step with data.
C31_Witness ==
    /\ pc = "loop"
    /\ \E l \in DOMAIN data : ~Supplied(data[l], in_file)
    /\ terminated_list # <<>>
    /\ Active(tracks) # {}

\* C32: at every entry to track_core the terminated list contains no index
\* twice and only indices of existing tracks, so the removal of the
\* terminated indices from the list of all track indices does not fail,
\* also after force-termination steps.
C32_RemovalNeverFails ==
    [][(pc = "loop" /\ pc' \notin {"loop", "done"})
       => /\ \A i, j \in DOMAIN terminated_list :
                i # j => terminated_list[i] # terminated_list[j]
          /\ Range(terminated_list) \subseteq DOMAIN tracks
          /\ pc' = "core"]_vars

\* track_core has been entered with a terminated list that a
\* force-termination step has filled.
C32_Witness ==
    /\ pc = "core"
    /\ \E l \in DOMAIN data : ~Supplied(data[l], in_file)
    /\ terminated_list # <<>>

\* C33: after every track_core step that completes, the detected eddies of
\* the step are partitioned over the Active tracks: each detected eddy is
\* the last entry of exactly one Active track, so there are as many Active
\* tracks as eddies detected at the step.
C33_EddiesPartitionActiveTracks ==
    [][(pc = "core" /\ pc' = "loop")
       => /\ Cardinality(Active(tracks')) = Len(det_eddies)
          /\ \A e \in DOMAIN det_eddies :
                Cardinality({ed \in Active(tracks') :
                    LastEntry(tracks'[ed]) = EntryOf(det_eddies[e])}) = 1]_vars

\* A step has completed in which one track was extended, one was
\* terminated and one was created.
C33_Witness ==
    /\ pc = "loop" /\ t_range = <<>>
    /\ \E i, j, k \in DOMAIN tracks :
        /\ ~tracks[i].terminated /\ Len(tracks[i].lon) = 2
        /\ tracks[j].terminated
        /\ ~tracks[k].terminated /\ ~tracks[k].exist_at_start

\* C34: a track never skips a timestep: after each processed step every
\* Active track's last recorded entry comes from that step, and the
\* entries of any track belong to consecutive steps of the time axis.
C34_NoStepIsSkipped ==
    [][/\ (pc' = "loop" /\ (pc = "core" \/ (pc = "loop" /\ t_range # <<>>)))
            => \A ed \in Active(tracks') :
                  Last(tracks'[ed].time) = StepLabel
       /\ \A ed \in DOMAIN tracks' :
            \A k \in 1..(Len(tracks'[ed].time) - 1) :
                tracks'[ed].time[k + 1] = tracks'[ed].time[k] + 1]_vars

\* The leap years among the years of the calls.
LeapYears == {2000, 2004}

\* One timestamp is earlier than another.
Earlier(a, b) ==
    \/ a.year < b.year
    \/ a.year = b.year /\ a.month < b.month
    \/ a.year = b.year /\ a.month = b.month /\ a.day < b.day
    \/ a.year = b.year /\ a.month = b.month /\ a.day = b.day
       /\ a.hour < b.hour

\* The entry of the generated range is rewritten in the time axis.
Rewritten(k) == call.result.eddies_time[k] # call.result.eddies_time_range[k]

\* C36: the time axis built by prepare is strictly increasing with one
\* entry per step, and an entry is rewritten from Feb 27 to Feb 28 exactly
\* when the model is ORCA and the entry's year is a leap year; for MITgcm
\* and for non-leap years no entry is changed.
C36_TimeAxis ==
    call.fn = "prepare_eddies_time" =>
        LET axis  == call.result.eddies_time
            range == call.result.eddies_time_range
        IN  /\ Len(axis) = Len(range)
            /\ \A k \in 1..(Len(axis) - 1) : Earlier(axis[k], axis[k + 1])
            /\ \A k \in DOMAIN axis :
                  IF /\ <<range[k].month, range[k].day>> = <<2, 27>>
                     /\ range[k].year \in LeapYears
                     /\ call.args.model = "ORCA"
                  THEN /\ <<axis[k].month, axis[k].day>> = <<2, 28>>
                       /\ axis[k].year = range[k].year
                  ELSE ~Rewritten(k)

\* A daily time axis of the ORCA model over the end of February of a leap
\* year: the entry of Feb 27 is rewritten, and the entry of Feb 28 follows
\* it.
C36_Witness ==
    /\ call.fn = "prepare_eddies_time"
    /\ call.args.dt = 1
    /\ \E k \in DOMAIN call.result.eddies_time :
        /\ Rewritten(k)
        /\ k + 1 \in DOMAIN call.result.eddies_time
        /\ k - 1 \in DOMAIN call.result.eddies_time

\* C35: in is_in_ellipse the western extent is max(d, dE), so along the
\* line y = y0 the accepted longitudes are exactly the interval
\* [x0 - max(d, dE), x0 + dE]: the region reaches at least as far west as
\* east and contains the track's own last position (x0, y0).
C35_WesternExtentIsFloored ==
    (/\ call.fn = "is_in_ellipse"
     /\ call.args.dE > 0
     /\ call.args.y = call.args.y0) =>
        LET west == IF call.args.d > call.args.dE THEN call.args.d
                    ELSE call.args.dE
        IN  /\ call.result <=>
                 /\ call.args.x0 - west <= call.args.x
                 /\ call.args.x <= call.args.x0 + call.args.dE
            /\ call.args.x = call.args.x0 => call.result

\* is_in_ellipse was called with d below dE and the point dE west of
\* (x0, y0), and returned True.
C35_Witness ==
    /\ call.fn = "is_in_ellipse"
    /\ call.args.d < call.args.dE
    /\ call.args.y = call.args.y0
    /\ call.args.x = call.args.x0 - call.args.dE
    /\ call.result

\* C37: in the in-memory mode, at each step the time field of the first
\* record of the step's eddy set is compared against the expected date of
\* the time axis, so a step whose records carry a different date is not
\* tracked as if it were the expected step.
C37_MisalignedStepIsNotTracked ==
    [][(~in_file /\ pc = "loop" /\ pc' = "core")
       => det_eddies'[1].time = StepLabel]_vars

\* The footprint of the eddy recorded at the k-th entry (from 0) of a
\* track: the grid cell of its center.
FootprintAt(track, k) ==
    [i |-> track.lon[k + 1] \div 500, j |-> track.lat[k + 1] \div 500]

\* C38: for every track at every point of a run, the footprint mappings
\* eddy_i and eddy_j have exactly the keys 0..n-1, where n is the length of
\* the track's lon sequence, and key k holds the footprint of the eddy
\* matched at the track's k-th entry.
C38_FootprintsFollowEntries ==
    \A ed \in DOMAIN tracks :
        /\ DOMAIN tracks[ed].eddy_i = 0..(Len(tracks[ed].lon) - 1)
        /\ DOMAIN tracks[ed].eddy_j = 0..(Len(tracks[ed].lon) - 1)
        /\ \A k \in 0..(Len(tracks[ed].lon) - 1) :
              /\ tracks[ed].eddy_i[k] = FootprintAt(tracks[ed], k).i
              /\ tracks[ed].eddy_j[k] = FootprintAt(tracks[ed], k).j

\* A track was extended by an eddy of another footprint, next to a track
\* created by track_core.
C38_Witness ==
    \E a, b \in DOMAIN tracks :
        /\ Len(tracks[a].lon) >= 2
        /\ tracks[a].eddy_i[0] # tracks[a].eddy_i[1]
        /\ ~tracks[b].exist_at_start

====
